---- MODULE Spec2Model ----
(***************************************************************************)
(* TaskFlow (TJ456/Prac): the account controller, the authentication gate  *)
(* `protect`, the token utility and the task controller, modelled as a     *)
(* state machine over the two Mongoose collections (users, tasks).         *)
(*                                                                         *)
(* Conventions.                                                            *)
(*  - A JavaScript value that may be `undefined` is a sequence: <<>> is    *)
(*    undefined, <<v>> is the value v.                                     *)
(*  - A Mongoose query that finds nothing yields Null.                     *)
(*  - An Express response object is [sent, attempts]: `attempts` lists     *)
(*    every res.status(s).json(b) call the handler made, `sent` holds the  *)
(*    one response that went to the client (the first).  A later call      *)
(*    throws ERR_HTTP_HEADERS_SENT and writes nothing.                     *)
(*  - Each handler is one atomic action; `last` records the request it ran *)
(*    on, what it answered, the store calls it made and the collection     *)
(*    contents it started from.  SpecTaskRace and SpecRegisterRace split a *)
(*    handler at its awaits instead: `inflight` holds the runs that have   *)
(*    passed their first store call and not yet made their second.         *)
(***************************************************************************)
EXTENDS Integers, Sequences, FiniteSets, TLC

VARIABLES users, tasks, now, last, inflight

vars == <<users, tasks, now, last, inflight>>

-----------------------------------------------------------------------------
(* Bounds                                                                  *)

MaxTasks == 2        \* task documents the tasks collection can hold
MaxBodyFields == 1   \* fields a PUT body sets at once
MaxClock == 1        \* token lifetimes the clock runs through
MaxUsers == 2        \* user documents the users collection can hold
MaxClients == 2      \* requests a handler can be serving at once

-----------------------------------------------------------------------------
(* JavaScript values                                                       *)

Undefined == <<>>
Some(v) == <<v>>
Null == [null |-> TRUE]

\* The truthiness test left out: every value passes.
NeverFalsy(x) == FALSE

\* !x for an optional string: undefined and "" are falsy
Falsy(x) == x = Undefined \/ x = Some("")

-----------------------------------------------------------------------------
(* Express response object                                                 *)

NewRes == [sent |-> <<>>, attempts |-> <<>>]

Response(status, body) == [status |-> status, body |-> body]

HeadersSent(res) == res.sent # <<>>

\* A response object without the guard of Node's http module: every call
\* of json writes.
JsonUnguarded(res, status, body) ==
    [sent     |-> Append(res.sent, Response(status, body)),
     attempts |-> Append(res.attempts, Response(status, body))]

\* res.status(status).json(body): the first call sends; a later one throws
\* before writing anything (the caller tests HeadersSent for the throw).
Json(res, status, body) ==
    [sent     |-> IF HeadersSent(res) THEN res.sent
                  ELSE <<Response(status, body)>>,
     attempts |-> Append(res.attempts, Response(status, body))]

HeadersSentError ==
    [name |-> "Error",
     message |-> "Cannot set headers after they are sent to the client"]

\* What a handler run amounts to: the response object, the tasks collection
\* it leaves, the store calls it made, and whether its promise rejected with
\* nobody to catch it.
Outcome(res, store, ops, unhandled) ==
    [res |-> res, tasks |-> store, ops |-> ops, unhandled |-> unhandled]

\* A catch block whose only statement is res.status(status).json(body): if
\* the headers are already out, that call throws inside the catch.
CatchJson(res, status, body, store, ops) ==
    Outcome(Json(res, status, body), store, ops, HeadersSent(res))

-----------------------------------------------------------------------------
(* models/userModel.js, models/taskModel.js                                *)

\* A user document as stored; _id is the position in the collection.
Account(id, name, email, password) ==
    [_id |-> id, name |-> name, email |-> email, password |-> password]

UserIds == 1 .. Len(users)

TaskIds == 1 .. MaxTasks

\* An :id route parameter: 0 stands for a string that is no ObjectId.
ParamIds == 0 .. MaxTasks

ValidObjectId(id) == id # 0

PriorityEnum == {"low", "high", "medium"}

PriorityDefault == "low"

StatusEnum == {"Pending", "in-progress", "completed"}

StatusDefault == "Pending"

\* The paths of taskSchema; any other key of a document or an update is
\* dropped (strict mode).
TaskPaths == {"tittle", "description", "priority", "status", "duedate", "user"}

\* A task document as stored.
TaskDoc(id, tittle, description, priority, status, user) ==
    [_id |-> id, tittle |-> tittle, description |-> description,
     priority |-> priority, status |-> status, duedate |-> Undefined,
     user |-> user, createdAt |-> id]

\* Validators of one path for a value v (an optional): required, enum.
PathValid(path, v) ==
    CASE path = "tittle"      -> ~Falsy(v)
      [] path = "description" -> ~Falsy(v)
      [] path = "priority"    -> v # Undefined /\ v[1] \in PriorityEnum
      [] path = "status"      -> v # Undefined /\ v[1] \in StatusEnum
      [] path = "user"        -> v # Undefined
      [] OTHER                -> TRUE

ValidationError ==
    [name |-> "ValidationError", message |-> "Validation failed"]

CastError == [name |-> "CastError", message |-> "Cast to ObjectId failed"]

-----------------------------------------------------------------------------
(* Mongoose queries on the tasks collection.  A collection is a function   *)
(* from TaskIds to a document or Null.                                     *)

\* Task.findById(id), for an id that is an ObjectId
FindById(store, id) == IF id \in DOMAIN store THEN store[id] ELSE Null

\* The paths an update sets: the body's keys that are schema paths and are
\* not undefined (strict mode drops `title`, which is no path).
UpdatePaths(body) == {p \in DOMAIN body \cap TaskPaths : body[p] # Undefined}

\* Task.findByIdAndUpdate(id, body, {new: true, runValidators: true}):
\* the validators of every path the update sets run first; one failure
\* rejects the whole update.  An absent document is no error: null.
FindByIdAndUpdate(store, id, body) ==
    LET paths == UpdatePaths(body)
        bad   == {p \in paths : ~PathValid(p, body[p])}
        old   == FindById(store, id)
        new   == [f \in DOMAIN old |->
                     IF f \in paths THEN body[f][1] ELSE old[f]]
    IN  IF bad # {} THEN [error |-> Some(ValidationError), doc |-> Null,
                          store |-> store]
        ELSE IF old = Null THEN [error |-> Undefined, doc |-> Null,
                                 store |-> store]
        ELSE [error |-> Undefined, doc |-> new,
              store |-> [store EXCEPT ![id] = new]]

\* Task.findByIdAndDelete(id)
FindByIdAndDelete(store, id) ==
    LET old == FindById(store, id)
    IN  [doc |-> old,
         store |-> IF old = Null THEN store ELSE [store EXCEPT ![id] = Null]]

\* .sort({createdAt: -1}) of a set of documents
RECURSIVE SortNewestFirst(_)
SortNewestFirst(docs) ==
    IF docs = {} THEN <<>>
    ELSE LET newest == CHOOSE d \in docs :
                           \A e \in docs : e.createdAt <= d.createdAt
         IN  <<newest>> \o SortNewestFirst(docs \ {newest})

\* .populate("user") without a field selection: the whole user document.
PopulateWhole(doc) ==
    [doc EXCEPT !.user = IF doc.user \in UserIds THEN users[doc.user] ELSE Null]

\* .populate("user", "name email"): the owner id replaced by the user
\* document's _id, name and email (null when no such user)
Populate(doc) ==
    [doc EXCEPT !.user =
        IF doc.user \in UserIds
        THEN [_id |-> doc.user, name |-> users[doc.user].name,
              email |-> users[doc.user].email]
        ELSE Null]

\* Task.find({user: uid}).sort({createdAt: -1}).populate("user", "name email")
PopulateAll(docs) == [i \in 1 .. Len(docs) |-> Populate(docs[i])]

\* The query without its {user: uid} filter.
FindUnscoped(store, uid) ==
    PopulateAll(SortNewestFirst(
        {store[i] : i \in {j \in DOMAIN store : store[j] # Null}}))

Find(store, uid) ==
    PopulateAll(SortNewestFirst(
        {store[i] : i \in {j \in DOMAIN store :
                              store[j] # Null /\ store[j].user = uid}}))

\* new Task(obj): keys that are no schema path are dropped, defaults fill
\* priority and status.
SchemaDoc(obj) ==
    LET at(p) == IF p \in DOMAIN obj THEN obj[p] ELSE Undefined
    IN  [tittle      |-> at("tittle"),
         description |-> at("description"),
         priority    |-> IF at("priority") = Undefined
                         THEN Some(PriorityDefault) ELSE at("priority"),
         status      |-> IF at("status") = Undefined
                         THEN Some(StatusDefault) ELSE at("status"),
         duedate     |-> at("duedate"),
         user        |-> at("user")]

FreeIds(store) == {i \in DOMAIN store : store[i] = Null}

\* Task.create(obj): validate every path, then insert under a fresh id.
Create(store, obj) ==
    LET doc == SchemaDoc(obj)
        bad == {p \in TaskPaths : ~PathValid(p, doc[p])}
        id  == CHOOSE i \in FreeIds(store) : \A j \in FreeIds(store) : i <= j
    IN  IF bad # {} \/ FreeIds(store) = {}
        THEN [error |-> Some(ValidationError), store |-> store]
        ELSE [error |-> Undefined,
              store |-> [store EXCEPT ![id] =
                            TaskDoc(id, doc.tittle[1], doc.description[1],
                                    doc.priority[1], doc.status[1],
                                    doc.user[1])]]

-----------------------------------------------------------------------------
(* controllers/taskController.js (src/unnamed/part_001)                    *)
(* req is [user, params, body]; req.user is what the gate attaches.        *)

StoreOp(name, id) == [op |-> name, id |-> id]

\* getTasks, lines 17-29
getTasks(req) ==
    Outcome(Json(NewRes, 200, [tasks |-> Find(tasks, req.user._id)]),
            tasks, <<StoreOp("find", req.user._id)>>, FALSE)

\* Task.create(obj) as a store call: the object it was handed
CreateOp(obj) == [op |-> "create", id |-> 0, obj |-> obj]

\* The owner taken from the body when the body names one.
TaskOwnerFromBody(req) ==
    IF req.body.user # Undefined THEN req.body.user ELSE Some(req.user._id)

\* user: req.user._id, line 54
TaskOwner(req) == Some(req.user._id)

\* createTask, lines 42-63.  Line 44 reads title, description, status,
\* priority, duedate from the body; line 45-47 answers 400 without
\* returning; line 48 starts Task.create with the key `title` and does not
\* await it, so newTask is a pending promise (serialised as {}) and a
\* rejection of the create is nobody's to catch.
createTask(req) ==
    LET body    == req.body
        r1      == IF Falsy(body.title)
                   THEN Json(NewRes, 400, [message |-> "tittle is required"])
                   ELSE NewRes
        obj     == [title |-> body.title,
                    description |-> body.description,
                    status |-> body.status,
                    priority |-> body.priority,
                    duedate |-> body.duedate,
                    user |-> TaskOwner(req)]
        created == Create(tasks, obj)
        ops     == <<CreateOp(obj)>>
        newTask == [promise |-> "pending"]
        r2      == Json(r1, 201, newTask)
    IN  IF HeadersSent(r1)
        THEN CatchJson(r2, 400,
                       [message |-> "server error", error |-> HeadersSentError],
                       created.store, ops)
        ELSE Outcome(r2, created.store, ops, created.error # Undefined)

\* The ownership test left out: nobody is ever a stranger.
NotOwnerUnchecked(task, req) == FALSE

\* The ownership test of lines 86, 116, 152
NotOwner(task, req) == task.user # req.user._id

\* getTaskById, lines 77-94.  The 403 of line 87 is not followed by a
\* return, so line 89 runs for a non-owner too.
getTaskById(req) ==
    LET id   == req.params.id
        ops  == <<StoreOp("findById", id)>>
        fail == [message |-> "request failure"]
        task == FindById(tasks, id)
        r1   == IF NotOwner(task, req)
                THEN Json(NewRes, 403,
                          [message |-> "Not authorized to view this task"])
                ELSE NewRes
        r2   == Json(r1, 200, [message |-> "task is authorized", task |-> task])
    IN  IF ~ValidObjectId(id) THEN CatchJson(NewRes, 401, fail, tasks, ops)
        ELSE IF task = Null
        THEN Outcome(Json(NewRes, 400, [message |-> "task not found"]),
                     tasks, ops, FALSE)
        ELSE IF HeadersSent(r1) THEN CatchJson(r2, 401, fail, tasks, ops)
        ELSE Outcome(r2, tasks, ops, FALSE)

\* The catch block of updateTask and deleteTask, lines 127 and 159
ServerError(error) == [message |-> "Server error", error |-> error.message]

\* updateTask, lines 107-131.  The 403 of line 117 is not followed by a
\* return, so line 120 runs for a non-owner too.  `task` is what the
\* findById of line 111 resolved to, `store` the collection when the
\* findByIdAndUpdate of line 120 runs.
updateTaskAt(req, task, store) ==
    LET id   == req.params.id
        find == <<StoreOp("findById", id)>>
        r1   == IF NotOwner(task, req)
                THEN Json(NewRes, 403,
                          [message |-> "Not authorized to view this task"])
                ELSE NewRes
        upd  == FindByIdAndUpdate(store, id, req.body)
        ops  == Append(find, StoreOp("findByIdAndUpdate", id))
        r2   == Json(r1, 200, [message |-> "updataed task", task |-> upd.doc])
    IN  IF ~ValidObjectId(id)
        THEN CatchJson(NewRes, 500, ServerError(CastError), store, find)
        ELSE IF task = Null
        THEN Outcome(Json(NewRes, 400, [message |-> "task not found"]),
                     store, find, FALSE)
        ELSE IF upd.error # Undefined
        THEN CatchJson(r1, 500, ServerError(upd.error[1]), store, ops)
        ELSE IF HeadersSent(r1)
        THEN CatchJson(r2, 500, ServerError(HeadersSentError), upd.store, ops)
        ELSE Outcome(r2, upd.store, ops, FALSE)

\* A run of updateTask with nothing else running between its two awaits
updateTask(req) ==
    updateTaskAt(req, FindById(tasks, req.params.id), tasks)

\* deleteTask, lines 143-161.  The 403 of line 153 is not followed by a
\* return, so line 155 runs for a non-owner too.  `task` is what the
\* findById of line 147 resolved to, `store` the collection when the
\* findByIdAndDelete of line 155 runs.
deleteTaskAt(req, task, store) ==
    LET id   == req.params.id
        find == <<StoreOp("findById", id)>>
        r1   == IF NotOwner(task, req)
                THEN Json(NewRes, 403,
                          [message |-> "Not authorized to view this task"])
                ELSE NewRes
        del  == FindByIdAndDelete(store, id)
        ops  == Append(find, StoreOp("findByIdAndDelete", id))
        r2   == Json(r1, 200, [message |-> "task deleted successfully",
                               task |-> del.doc])
    IN  IF ~ValidObjectId(id)
        THEN CatchJson(NewRes, 500, ServerError(CastError), store, find)
        ELSE IF task = Null
        THEN Outcome(Json(NewRes, 400, [message |-> "task not found"]),
                     store, find, FALSE)
        ELSE IF HeadersSent(r1)
        THEN CatchJson(r2, 500, ServerError(HeadersSentError), del.store, ops)
        ELSE Outcome(r2, del.store, ops, FALSE)

\* A run of deleteTask with nothing else running between its two awaits
deleteTask(req) ==
    deleteTaskAt(req, FindById(tasks, req.params.id), tasks)

-----------------------------------------------------------------------------
(* Requests to the task routes, as they reach a handler                    *)

\* User.findById(id).select("-password"): the user document without its
\* password
SelectNoPassword(user) ==
    [f \in DOMAIN user \ {"password"} |-> user[f]]

Optional(S) == {Undefined} \cup {Some(v) : v \in S}

Defined(body) == {f \in DOMAIN body : body[f] # Undefined}

\* PUT bodies: `title` is what the guide's clients send, "pending" and
\* "urgent" are outside the schema's enums.
UpdateBodies ==
    {b \in [title       : Optional({"buy milk"}),
            status      : Optional({"completed", "pending"}),
            priority    : Optional({"urgent"}),
            user        : Optional(UserIds)] :
        Cardinality(Defined(b)) <= MaxBodyFields}

\* POST bodies; `user` is a client-supplied owner.
CreateBodies ==
    [title       : Optional({"buy milk"}),
     description : Optional({"two litres"}),
     status      : {Undefined},
     priority    : {Undefined},
     duedate     : {Undefined},
     user        : Optional(UserIds)]

\* One handler run: the collection it leaves and the record of the run.
TaskRequest(name, req, out) ==
    /\ tasks' = out.tasks
    /\ last' = [op |-> name, req |-> req, res |-> out.res, ops |-> out.ops,
                unhandled |-> out.unhandled, before |-> tasks]
    /\ UNCHANGED <<users, now, inflight>>

GetTasks ==
    \E u \in UserIds :
        LET req == [user |-> SelectNoPassword(users[u])]
        IN  TaskRequest("getTasks", req, getTasks(req))

CreateTask ==
    \E u \in UserIds, b \in CreateBodies :
        LET req == [user |-> SelectNoPassword(users[u]), body |-> b]
        IN  TaskRequest("createTask", req, createTask(req))

GetTaskById ==
    \E u \in UserIds, id \in ParamIds :
        LET req == [user |-> SelectNoPassword(users[u]), params |-> [id |-> id]]
        IN  TaskRequest("getTaskById", req, getTaskById(req))

UpdateTask ==
    \E u \in UserIds, id \in ParamIds, b \in UpdateBodies :
        LET req == [user |-> SelectNoPassword(users[u]),
                    params |-> [id |-> id], body |-> b]
        IN  TaskRequest("updateTask", req, updateTask(req))

DeleteTask ==
    \E u \in UserIds, id \in ParamIds :
        LET req == [user |-> SelectNoPassword(users[u]), params |-> [id |-> id]]
        IN  TaskRequest("deleteTask", req, deleteTask(req))

-----------------------------------------------------------------------------
(* The task resource: two registered accounts and a tasks collection that  *)
(* already holds documents (the collection outlives the process).          *)

\* bcrypt.hash(plaintext, rounds): a one-way digest of the plaintext at the
\* given cost (the random salt is left out: bcrypt.compare does not depend
\* on which salt was drawn).
BcryptHash(plaintext, rounds) == [rounds |-> rounds, digest |-> <<plaintext>>]

SeedUsers ==
    <<Account(1, "Ann", "ann@x.com", BcryptHash("longpass1", 12)),
      Account(2, "Bob", "bob@x.com", BcryptHash("longpass2", 12))>>

SeedTasks ==
    [TaskIds -> {Null} \cup
        {TaskDoc(0, "buy milk", "one litre", PriorityDefault, StatusDefault, u) :
            u \in 1 .. Len(SeedUsers)}]

NoRequest == [op |-> "none"]

\* The requests a handler is serving: a handler run that has reached an
\* `await` on a store call is in flight until the call resolves, and the
\* event loop runs other requests meanwhile.
Clients == 1 .. MaxClients

Idle == [pc |-> "idle"]

NoneInFlight == [c \in Clients |-> Idle]

InitTasks ==
    /\ users = SeedUsers
    /\ tasks \in {[i \in TaskIds |->
                     IF s[i] = Null THEN Null
                     ELSE [s[i] EXCEPT !._id = i, !.createdAt = i]] :
                  s \in SeedTasks}
    /\ now = 0
    /\ last = NoRequest
    /\ inflight = NoneInFlight

NextTasks == GetTasks \/ CreateTask \/ GetTaskById \/ UpdateTask \/ DeleteTask

SpecTasks == InitTasks /\ [][NextTasks]_vars

-----------------------------------------------------------------------------
(* Properties of the task resource (SpecTasks)                             *)

\* The run recorded in `last` is handler `name` on a stored task that the
\* requester does not own.
ByStranger(name) ==
    /\ last.op = name
    /\ last.req.params.id \in TaskIds
    /\ last.before[last.req.params.id] # Null
    /\ last.before[last.req.params.id].user # last.req.user._id

Statuses(responses) == {responses[i].status : i \in 1 .. Len(responses)}

OpsNamed(name) == {i \in 1 .. Len(last.ops) : last.ops[i].op = name}

\* C1: an updateTask request by an authenticated requester who does not own
\* the stored task is answered 403 and ends there: the handler runs no store
\* update for it and the tasks collection is what it was before the request.
C1_StrangerUpdateEndsAt403 ==
    ByStranger("updateTask") =>
        /\ Statuses(last.res.sent) = {403}
        /\ OpsNamed("findByIdAndUpdate") = {}
        /\ tasks = last.before

\* C2: a deleteTask request by an authenticated requester who does not own
\* the stored task is answered 403 and ends there: the handler runs no store
\* delete for it and the task is still in the collection afterwards.
C2_StrangerDeleteEndsAt403 ==
    ByStranger("deleteTask") =>
        /\ Statuses(last.res.sent) = {403}
        /\ OpsNamed("findByIdAndDelete") = {}
        /\ tasks[last.req.params.id] # Null

\* C3: a getTaskById request by an account other than the task's owner is
\* answered 403, and no response that went out for the request carries the
\* task's record.
C3_StrangerGetIs403 ==
    ByStranger("getTaskById") =>
        /\ Len(last.res.sent) = 1
        /\ last.res.sent[1].status = 403
        /\ "task" \notin DOMAIN last.res.sent[1].body

\* C3 witness: a stranger asked for a stored task and the handler answered.
C3_Witness ==
    /\ ByStranger("getTaskById")
    /\ last.res.sent # <<>>

\* The ids of the stored tasks of `before` owned by uid.
OwnedIds(before, uid) ==
    {i \in DOMAIN before : before[i] # Null /\ before[i].user = uid}

\* C4: getTasks answers 200 with exactly the stored tasks whose owner is the
\* requester, each as stored (its owner populated), and never answers 403.
C4_ListIsOwnersTasks ==
    last.op = "getTasks" =>
        LET listed == last.res.sent[1].body.tasks
            uid    == last.req.user._id
        IN  /\ Len(last.res.sent) = 1
            /\ last.res.sent[1].status = 200
            /\ 403 \notin Statuses(last.res.attempts)
            /\ {listed[i]._id : i \in 1 .. Len(listed)} = OwnedIds(last.before, uid)
            /\ Len(listed) = Cardinality(OwnedIds(last.before, uid))
            /\ \A i \in 1 .. Len(listed) :
                   /\ listed[i].user._id = uid
                   /\ [listed[i] EXCEPT !.user = uid] = last.before[listed[i]._id]

\* C4 witness: a list request answered with a task while the collection
\* also held a task of another account.
C4_Witness ==
    /\ last.op = "getTasks"
    /\ last.res.sent[1].body.tasks # <<>>
    /\ \E i \in TaskIds :
           /\ last.before[i] # Null
           /\ last.before[i].user # last.req.user._id

\* The run recorded in `last` is createTask.
CreateRun == last.op = "createTask"

\* The tasks the run recorded in `last` added to the collection.
NewTaskIds == {i \in TaskIds : last.before[i] = Null /\ tasks[i] # Null}

\* C16: createTask hands Task.create the authenticated requester's id as
\* the owner, whatever owner (user) the body supplies, and any task the run
\* stores is owned by the requester: the body never chooses the owner.
C16_OwnerIsRequester ==
    CreateRun =>
        /\ \A k \in OpsNamed("create") :
               last.ops[k].obj.user = Some(last.req.user._id)
        /\ \A i \in NewTaskIds : tasks[i].user = last.req.user._id

\* C16 witness: createTask called Task.create on a body that names another
\* account as the owner.
C16_Witness ==
    /\ CreateRun
    /\ OpsNamed("create") # {}
    /\ last.req.body.user # Undefined
    /\ last.req.body.user # Some(last.req.user._id)
    /\ ~Falsy(last.req.body.title)

\* C17: the owner id of a stored task never changes: whatever requests
\* run, updateTask with a body that carries a user field included, a task
\* that stays in the collection keeps the owner it had.
C17_OwnerNeverChanges ==
    [][\A i \in TaskIds :
           (tasks[i] # Null /\ tasks'[i] # Null)
           => tasks'[i].user = tasks[i].user]_vars

\* The run recorded in `last` is getTaskById, updateTask or deleteTask on
\* an id that names no stored task.
OnAbsentTask ==
    /\ last.op \in {"getTaskById", "updateTask", "deleteTask"}
    /\ \/ last.req.params.id \notin TaskIds
       \/ last.before[last.req.params.id] = Null

\* C18: getTaskById, updateTask and deleteTask answer a request whose id
\* names no stored task with 404, and make no store call after the lookup.
C18_AbsentTaskIs404 ==
    OnAbsentTask =>
        /\ Statuses(last.res.sent) = {404}
        /\ Len(last.ops) = 1
        /\ tasks = last.before

\* The run recorded in `r` is deleteTask by the owner of a stored task.
DeleteByOwner(r) ==
    /\ r.op = "deleteTask"
    /\ r.req.params.id \in TaskIds
    /\ r.before[r.req.params.id] # Null
    /\ r.before[r.req.params.id].user = r.req.user._id

\* C19: when the owner deletes a task and then sends deleteTask for the
\* same id again, the first request is answered with the 200 confirmation
\* and the second with 404 - not 500, not a success.
C19_SecondDeleteIs404 ==
    [][(/\ DeleteByOwner(last)
        /\ last'.op = "deleteTask"
        /\ last'.req = last.req)
       => /\ Statuses(last.res.sent) = {200}
          /\ Statuses(last'.res.sent) = {404}]_vars

\* The run recorded in `last` is createTask on a body without a title.
CreateWithoutTitle ==
    /\ last.op = "createTask"
    /\ Falsy(last.req.body.title)

\* C24: createTask on a body without a title is answered with the 400
\* "tittle is required" and with nothing else, and the run leaves the tasks
\* collection as it found it.
C24_NoTitleIs400AndNoTask ==
    CreateWithoutTitle =>
        /\ last.res.sent = <<Response(400, [message |-> "tittle is required"])>>
        /\ tasks = last.before

\* C24 witness: such a run, which went on to call Task.create after the 400
\* and stored nothing.
C24_Witness ==
    /\ CreateWithoutTitle
    /\ Statuses(last.res.sent) = {400}
    /\ OpsNamed("create") # {}
    /\ tasks = last.before

\* C25: in every state of the tasks collection, every stored task has a
\* status among pending, in-progress, completed and a priority among low,
\* medium, high.
C25_StoredEnumsAsDocumented ==
    \A i \in TaskIds :
        tasks[i] # Null =>
            /\ tasks[i].status \in {"pending", "in-progress", "completed"}
            /\ tasks[i].priority \in {"low", "medium", "high"}

\* The run recorded in `last` is a task handler whose store call threw:
\* Task.findById rejects an id it cannot cast to an ObjectId.
StoreCallThrew ==
    /\ last.op \in {"getTaskById", "updateTask", "deleteTask"}
    /\ ~ValidObjectId(last.req.params.id)

\* C22: a handler whose store call fails unexpectedly answers 500 with a
\* body that carries a generic message and nothing else - no error object,
\* no error message text.
C22_StoreFailureIsGeneric500 ==
    StoreCallThrew =>
        /\ Len(last.res.sent) = 1
        /\ last.res.sent[1].status = 500
        /\ DOMAIN last.res.sent[1].body = {"message"}

-----------------------------------------------------------------------------
(* utils/generateToken.js (src/config/db.js, lines 57-107) and jsonwebtoken *)

\* process.env as dotenv loads it: the README's .env sets JWT_SECRET.
Env == [JWT_SECRET |-> Some("your_jwt_secret")]

\* process.env.NAME: undefined unless the variable of exactly that name is set
EnvGet(name) == IF name \in DOMAIN Env THEN Env[name] ELSE Undefined

\* expiresIn: '30d', in days
TokenTTL == 30

\* jwt.sign(payload, secret, {expiresIn}): the payload with iat and exp,
\* signed with the secret
JwtSign(payload, secret, ttl, iat) ==
    [payload |-> payload, iat |-> iat, exp |-> iat + ttl, key |-> secret]

\* The token signed over a payload that does not carry the caller's id.
generateTokenNoSubject(userId, iat) ==
    JwtSign([userId |-> 0], EnvGet("JWT_SECRET"), TokenTTL, iat)

\* generateToken(userId), lines 75-89, called at time iat
generateToken(userId, iat) ==
    JwtSign([userId |-> userId], EnvGet("JWT_SECRET"), TokenTTL, iat)

\* A string that is no JWT
MalformedToken == [malformed |-> TRUE]

JwtError(message) == [name |-> "JsonWebTokenError", message |-> message]

\* jwt.verify(token, secret) at time t: the decoded payload, or the error
\* it throws
JwtVerify(token, secret, t) ==
    IF secret = Undefined
    THEN [error |-> Some(JwtError("secret or public key must be provided"))]
    ELSE IF token = MalformedToken
    THEN [error |-> Some(JwtError("jwt malformed"))]
    ELSE IF token.key # secret
    THEN [error |-> Some(JwtError("invalid signature"))]
    ELSE IF t >= token.exp
    THEN [error |-> Some([name |-> "TokenExpiredError", message |-> "jwt expired"])]
    ELSE [error |-> Undefined, decoded |-> token.payload]

-----------------------------------------------------------------------------
(* middleware/authMiddleware.js                                            *)

\* A header value "<scheme> <credentials>"
HeaderValue(scheme, token) == [scheme |-> scheme, token |-> token]

\* The methods of a JavaScript string the gate could call
StringMethods == {"startsWith", "slice", "split", "toString"}

\* The identifiers in scope in authMiddleware.js (lines 4-6, 14, 22, 28)
GateScope == {"jwt", "User", "dotenv", "req", "res", "next", "token", "decoded"}

\* What a run of the gate amounts to: the response object, the number of
\* next() calls, req.user (undefined when never assigned) and whether the
\* catch block logged an error.
GateOutcome(res, nextCalls, user, logged) ==
    [res |-> res, next |-> nextCalls, user |-> user, logged |-> logged]

\* User.findById(id): the user document or null; id is an optional
FindUserById(id) ==
    IF id # Undefined /\ id[1] \in UserIds THEN users[id[1]] ELSE Null

\* A gate that calls next() for every request, attaching the first account.
protectAdmitAll(req) ==
    GateOutcome(NewRes, 1, Some(SelectNoPassword(users[1])), FALSE)

\* protect, lines 14-39.  The header is read under the name `autorization`
\* (line 24); line 25 calls .startswith on it, which no string has; line 28
\* reads JWT_secret; line 29 names `user` and reads decoded.id; the catch of
\* lines 36-38 logs and answers nothing.
protect(req) ==
    LET header   == req.headers.autorization
        swallow  == GateOutcome(NewRes, 0, Undefined, TRUE)
        verified == JwtVerify(header[1].token, EnvGet("JWT_secret"), now)
        id       == IF "id" \in DOMAIN verified.decoded
                    THEN Some(verified.decoded.id) ELSE Undefined
        found    == FindUserById(id)
        attached == IF found = Null THEN Null ELSE SelectNoPassword(found)
    IN  IF header = Undefined
        THEN GateOutcome(Json(NewRes, 401, [message |-> "NOt autho,no token"]),
                         0, Undefined, FALSE)
        ELSE IF "startswith" \notin StringMethods THEN swallow
        ELSE IF header[1].scheme # "Bearer"
        THEN GateOutcome(Json(NewRes, 401, [message |-> "NOt autho,no token"]),
                         0, Undefined, FALSE)
        ELSE IF verified.error # Undefined THEN swallow
        ELSE IF "user" \notin GateScope THEN swallow
        ELSE GateOutcome(NewRes, 1, Some(attached), FALSE)

-----------------------------------------------------------------------------
(* Mongoose queries on the users collection (models/userModel.js)          *)

\* lowercase: true, on the e-mail addresses of the model
ToLowerCase(s) == IF s = "Ann@X.com" THEN "ann@x.com" ELSE s

\* match: /\S+@\S+\.\S+/, on the e-mail addresses of the model
EmailPattern(s) == s \in {"ann@x.com", "Ann@X.com", "bob@x.com"}

NameMinLength == 3

NameMaxLength == 20

\* The query with its filter taken as typed, the lowercase setter left out.
FindUserByEmailExact(email) ==
    LET hits == {i \in UserIds : users[i].email = email}
    IN  IF hits = {} THEN Null
        ELSE users[CHOOSE i \in hits : \A j \in hits : i <= j]

\* User.findOne({email}): the filter is cast through the schema's lowercase
\* setter
FindUserByEmail(email) ==
    LET hits == {i \in UserIds : users[i].email = ToLowerCase(email)}
    IN  IF hits = {} THEN Null
        ELSE users[CHOOSE i \in hits : \A j \in hits : i <= j]

\* The insert without the unique index on the e-mail.
UserCreateNoIndex(name, email, password) ==
    LET stored == Account(Len(users) + 1, name, ToLowerCase(email), password)
    IN  IF \/ Len(name) < NameMinLength
           \/ Len(name) > NameMaxLength
           \/ ~EmailPattern(email)
        THEN [error |-> Some(ValidationError), users |-> users]
        ELSE [error |-> Undefined, users |-> Append(users, stored),
              user |-> stored]

\* User.create({name, email, password}): validators (name length, e-mail
\* pattern), the unique index on the lowercased e-mail, then the insert.
\* The stored password is a bcrypt hash, always longer than minlength 8.
UserCreate(name, email, password) ==
    LET stored == Account(Len(users) + 1, name, ToLowerCase(email), password)
    IN  IF \/ Len(name) < NameMinLength
           \/ Len(name) > NameMaxLength
           \/ ~EmailPattern(email)
        THEN [error |-> Some(ValidationError), users |-> users]
        ELSE IF \E i \in UserIds : users[i].email = stored.email
        THEN [error |-> Some([name |-> "MongoServerError",
                              message |-> "E11000 duplicate key error"]),
              users |-> users]
        ELSE [error |-> Undefined, users |-> Append(users, stored),
              user |-> stored]

\* bcrypt.compare(plaintext, hash)
BcryptCompare(plaintext, hash) == hash.digest = <<plaintext>>

-----------------------------------------------------------------------------
(* controllers/userController.js (src/unnamed/part_000)                    *)

\* What a run of an account handler amounts to: the two objects Express
\* passed, as the handler leaves them, the users collection, the store
\* calls the handler made, and whether its promise rejected with nobody to
\* catch it.
AccountOutcome(first, second, store, ops, unhandled) ==
    [first |-> first, second |-> second, users |-> store, ops |-> ops,
     unhandled |-> unhandled]

\* Only a response object has status() and json().
CanAnswer(object) == "sent" \in DOMAIN object

\* registerUser(req, res) at time t, lines 26-70 (User.create resolves to
\* the document or throws, so the else of line 62 has no case).  Past the
\* check of line 32 an undefined e-mail finds nobody, bcrypt.hash rejects
\* an undefined password and User.create an undefined or empty name or
\* e-mail (required): each lands in the catch of line 66.  `exists` is
\* what the findOne of line 37 resolved to; the create of line 46 acts on
\* the collection as it is when the handler gets there.
registerUserFound(req, res, t, exists) ==
    LET body    == req.body
        hashed  == BcryptHash(body.password[1], 12)
        created == UserCreate(body.name[1], body.email[1], hashed)
        user    == created.user
        token   == generateToken(user._id, t)
        findOne == <<"findOne">>
    IN  IF Falsy(body.name) \/ Falsy(body.email) \/ Falsy(body.password)
        THEN AccountOutcome(req,
                 Json(res, 400, [message |-> "All fields are required"]),
                 users, <<>>, FALSE)
        ELSE IF exists # Null
        THEN AccountOutcome(req,
                 Json(res, 400, [message |-> "User already exists"]),
                 users, findOne, FALSE)
        ELSE IF body.password = Undefined
        THEN AccountOutcome(req,
                 Json(res, 500, [message |-> "Internal server error"]),
                 users, findOne, FALSE)
        ELSE IF \/ body.name \in {Undefined, Some("")}
                \/ body.email \in {Undefined, Some("")}
                \/ created.error # Undefined
        THEN AccountOutcome(req,
                 Json(res, 500, [message |-> "Internal server error"]),
                 users, Append(findOne, "create"), FALSE)
        ELSE AccountOutcome(req,
                 Json(res, 201, [_id |-> user._id, name |-> user.name,
                                 email |-> user.email, token |-> token]),
                 created.users, Append(findOne, "create"), FALSE)

\* User.findOne({email}) of line 37
UserExists(body) ==
    IF body.email = Undefined THEN Null ELSE FindUserByEmail(body.email[1])

\* A run of registerUser with nothing else running between its awaits
registerUser(req, res, t) ==
    registerUserFound(req, res, t, UserExists(req.body))

InvalidCredentials == [message |-> "Invalid credentials"]

\* The try block of loginUser, lines 86-105, for a `req` with a body and a
\* `res` that can answer: the response object when the block throws.  It
\* always does: line 92 and line 96 do not return, line 94 reads
\* user.password, and line 100 calls the value of res.status(201).
LoginTry(res, body) ==
    LET r1   == IF Falsy(body.email) \/ Falsy(body.password)
                THEN Json(res, 400, [message |-> "all requires required"])
                ELSE res
        user == IF body.email = Undefined THEN Null
                ELSE FindUserByEmail(body.email[1])
        r2   == IF user = Null THEN Json(r1, 401, InvalidCredentials) ELSE r1
        r3   == IF BcryptCompare(body.password[1], user.password) THEN r2
                ELSE Json(r2, 401, InvalidCredentials)
    IN  IF user = Null \/ body.password = Undefined THEN r2 ELSE r3

\* A login that re-hashes every stored password at cost 10.
loginUserRehashing(res, req) ==
    AccountOutcome(res, req,
                   [i \in DOMAIN users |->
                       [users[i] EXCEPT !.password.rounds = 10]],
                   <<>>, TRUE)

\* loginUser(res, req), lines 84-112.  The parameters are named in
\* the order (res, req): Express passes the request first, so `res` is the
\* request and `req` the response.
loginUser(res, req) ==
    LET tried == IF "body" \in DOMAIN req /\ CanAnswer(res)
                 THEN LoginTry(res, req.body) ELSE res
    IN  IF CanAnswer(tried)
        THEN AccountOutcome(
                 Json(tried, 500, [message |-> "Internal server error"]),
                 req, users, <<>>, HeadersSent(tried))
        ELSE AccountOutcome(tried, req, users, <<>>, TRUE)

-----------------------------------------------------------------------------
(* Requests to the account routes and to the gate                          *)

RegisterBodies ==
    [name     : Optional({"Ann", "Bob", "Al"}),
     email    : Optional({"ann@x.com", "Ann@X.com", "bob@x.com", "ann"}),
     password : Optional({"longpass1", "longpass2", ""})]

LoginBodies ==
    [email    : Optional({"ann@x.com", "Ann@X.com", "bob@x.com"}),
     password : Optional({"longpass1", "longpass2"})]

\* The clock, in days: the start, and the last day and the expiry day of
\* each token lifetime
ClockValues ==
    {0} \cup UNION {{k * TokenTTL - 1, k * TokenTTL} : k \in 1 .. MaxClock}

\* The tokens a client can present at time t: every token generateToken has
\* or could have issued by then (testToken.js issues one for an id that is
\* no account), one signed with another key, and a string that is no JWT.
Tokens(t) ==
    {generateToken(u, iat) :
        u \in 1 .. MaxUsers + 1, iat \in {c \in ClockValues : c <= t}}
    \cup {[generateToken(1, t) EXCEPT !.key = Some("guess")]}
    \cup {MalformedToken}

HeaderValues(t) ==
    {HeaderValue("Bearer", tok) : tok \in Tokens(t)}
    \cup {HeaderValue("Basic", MalformedToken)}

\* Request headers: Authorization, and the name the gate reads.  A client
\* that sends both sends the same credentials under both.
Headers(t) ==
    {h \in [authorization : Optional(HeaderValues(t)),
            autorization  : Optional(HeaderValues(t))] :
        \/ h.authorization = Undefined
        \/ h.autorization = Undefined
        \/ h.authorization = h.autorization}

\* One run of an account handler, as Express calls it: (req, res).
AccountRequest(name, req, out, response) ==
    /\ Len(out.users) <= MaxUsers
    /\ users' = out.users
    /\ last' = [op |-> name, req |-> req, res |-> response, ops |-> out.ops,
                unhandled |-> out.unhandled, at |-> now, accounts |-> users]
    /\ UNCHANGED <<tasks, now, inflight>>

RegisterUser ==
    \E b \in RegisterBodies :
        LET req == [body |-> b]
            out == registerUser(req, NewRes, now)
        IN  AccountRequest("registerUser", req, out, out.second)

LoginUser ==
    \E b \in LoginBodies :
        LET req == [body |-> b]
            out == loginUser(req, NewRes)
        IN  AccountRequest("loginUser", req, out, out.second)

Protect ==
    \E h \in Headers(now) :
        LET req == [headers |-> h]
            out == protect(req)
        IN  /\ last' = [op |-> "protect", req |-> req, res |-> out.res,
                        next |-> out.next, user |-> out.user,
                        logged |-> out.logged, at |-> now, accounts |-> users]
            /\ UNCHANGED <<users, tasks, now, inflight>>

Tick ==
    \E t \in ClockValues :
        /\ t > now
        /\ now' = t
        /\ UNCHANGED <<users, tasks, last, inflight>>

-----------------------------------------------------------------------------
(* Accounts and the gate: an empty users collection, filled by             *)
(* registration.                                                           *)

InitAuth ==
    /\ users = <<>>
    /\ tasks = [i \in TaskIds |-> Null]
    /\ now = 0
    /\ last = NoRequest
    /\ inflight = NoneInFlight

NextAuth == RegisterUser \/ LoginUser \/ Protect \/ Tick

SpecAuth == InitAuth /\ [][NextAuth]_vars

-----------------------------------------------------------------------------
(* Every handler of the application over one database: one registered      *)
(* account, the tasks it owns, and room for registrations.                 *)

InitAll ==
    /\ users = SubSeq(SeedUsers, 1, 1)
    /\ tasks \in {[i \in TaskIds |->
                     IF s[i] = Null THEN Null
                     ELSE [s[i] EXCEPT !._id = i, !.createdAt = i]] :
                  s \in {t \in SeedTasks :
                            \A i \in TaskIds : t[i] # Null => t[i].user = 1}}
    /\ now = 0
    /\ last = NoRequest
    /\ inflight = NoneInFlight

NextAll == NextTasks \/ RegisterUser \/ LoginUser \/ Protect

SpecAll == InitAll /\ [][NextAll]_vars

-----------------------------------------------------------------------------
(* Properties of the gate and of login (SpecAuth)                          *)

\* The run recorded in `last` is the gate on a request whose Authorization
\* header is "Bearer <token>".
GateOnBearer ==
    /\ last.op = "protect"
    /\ last.req.headers.authorization # Undefined
    /\ last.req.headers.authorization[1].scheme = "Bearer"

\* What verifying the presented token against JWT_SECRET yields at the time
\* of the request.
Presented == last.req.headers.authorization[1].token

Verification == JwtVerify(Presented, EnvGet("JWT_SECRET"), last.at)

AccountIds == 1 .. Len(last.accounts)

Rejected401 ==
    /\ Statuses(last.res.sent) = {401}
    /\ last.next = 0

\* C5: a token generateToken issues for an existing account, presented at
\* once as "Authorization: Bearer <token>", makes the gate call the next
\* handler with req.user set to that account without its password.
C5_IssuedTokenPassesGate ==
    last.op = "protect" =>
        \A u \in AccountIds :
            last.req.headers.authorization
                = Some(HeaderValue("Bearer", generateToken(u, last.at)))
            => /\ last.next = 1
               /\ last.user = Some(SelectNoPassword(last.accounts[u]))

\* C6: a request with a well-formed Bearer header whose token fails
\* verification (malformed, wrong signature, expired) gets a 401 from the
\* gate - not a 500, not silence - and the next handler is not called.
C6_BadTokenIs401 ==
    (GateOnBearer /\ Verification.error # Undefined) => Rejected401

\* C7: a request with no Authorization header, or with one whose scheme is
\* not Bearer, gets a 401 from the gate and the next handler is not called.
C7_NoBearerIs401 ==
    (/\ last.op = "protect"
     /\ \/ last.req.headers.authorization = Undefined
        \/ last.req.headers.authorization[1].scheme # "Bearer")
    => Rejected401

\* C8: a request whose token verifies but names no account of the store is
\* rejected with 401 without calling the next handler, and the next handler
\* is never entered with a null identity.
C8_VanishedUserIs401 ==
    /\ (/\ GateOnBearer
        /\ Verification.error = Undefined
        /\ Verification.decoded.userId \notin AccountIds)
       => Rejected401
    /\ last.op = "protect" => ~(last.next > 0 /\ last.user = Some(Null))

\* C9: the gate performs exactly one terminal action per request: next() at
\* most once, never next() together with a rejection, and every request
\* ends with one of the two.
C9_ExactlyOneTerminalAction ==
    last.op = "protect" =>
        /\ last.next <= 1
        /\ ~(last.next > 0 /\ last.res.attempts # <<>>)
        /\ last.next = 1 \/ Len(last.res.sent) = 1

\* C10: loginUser answers an unknown e-mail and a known e-mail with the
\* wrong password alike: one 401 response with the generic message and
\* nothing else.
C10_LoginFailuresAlike ==
    (/\ last.op = "loginUser"
     /\ ~Falsy(last.req.body.email)
     /\ ~Falsy(last.req.body.password)
     /\ \A u \in AccountIds :
            last.accounts[u].email = ToLowerCase(last.req.body.email[1])
            => ~BcryptCompare(last.req.body.password[1],
                              last.accounts[u].password))
    => /\ last.res.sent = <<Response(401, InvalidCredentials)>>
       /\ last.res.attempts = last.res.sent

\* The run recorded in `r` is registerUser answering 201.
Registered(r) ==
    /\ r.op = "registerUser"
    /\ Statuses(r.res.sent) = {201}

\* A response that went out with a success status and the account body.
AccountSuccess(res) ==
    /\ Len(res.sent) = 1
    /\ res.sent[1].status \in 200 .. 299
    /\ DOMAIN res.sent[1].body = {"_id", "name", "email", "token"}

\* C11: a successful register followed by a login with the same e-mail and
\* password succeeds with {_id, name, email, token}, and both responses
\* carry the same account id.
C11_RegisterThenLogin ==
    [][(/\ Registered(last)
        /\ last'.op = "loginUser"
        /\ last'.req.body.email = last.req.body.email
        /\ last'.req.body.password = last.req.body.password)
       => /\ AccountSuccess(last'.res)
          /\ last'.res.sent[1].body._id = last.res.sent[1].body._id]_vars

\* The run recorded in `last` is registerUser on a body with all three
\* fields, whose e-mail is, up to letter case, that of a stored account.
RegisterOnUsedEmail ==
    /\ last.op = "registerUser"
    /\ ~Falsy(last.req.body.name)
    /\ ~Falsy(last.req.body.email)
    /\ ~Falsy(last.req.body.password)
    /\ \E u \in AccountIds :
           ToLowerCase(last.accounts[u].email)
               = ToLowerCase(last.req.body.email[1])

\* C12: once an account with e-mail E exists, a registerUser request whose
\* e-mail equals E up to letter case is answered 400 "User already exists"
\* whatever name and password it supplies, and creates no account.
C12_UsedEmailAlreadyExists ==
    RegisterOnUsedEmail =>
        /\ last.res.sent = <<Response(400, [message |-> "User already exists"])>>
        /\ last.res.attempts = last.res.sent
        /\ users = last.accounts

\* C12 witness: the e-mail differs in case from the stored one, and the
\* name and the password both differ from the stored account's.
C12_Witness ==
    /\ RegisterOnUsedEmail
    /\ \E u \in AccountIds :
           /\ last.accounts[u].email = ToLowerCase(last.req.body.email[1])
           /\ last.accounts[u].email # last.req.body.email[1]
           /\ last.accounts[u].name # last.req.body.name[1]
           /\ ~BcryptCompare(last.req.body.password[1],
                             last.accounts[u].password)
    /\ Statuses(last.res.sent) = {400}

\* A body field that is absent or the empty string.
Missing(v) == v \in {Undefined, Some("")}

\* The run recorded in `last` is registerUser on a body in which name,
\* e-mail or password is missing.
RegisterWithMissingField ==
    /\ last.op = "registerUser"
    /\ \/ Missing(last.req.body.name)
       \/ Missing(last.req.body.email)
       \/ Missing(last.req.body.password)

\* C13: a registerUser request in which name, e-mail or password is missing
\* is answered with exactly one 400 response and leaves the users
\* collection unchanged: the handler makes no findOne and no create.
C13_MissingFieldIs400 ==
    RegisterWithMissingField =>
        /\ Len(last.res.sent) = 1
        /\ last.res.sent[1].status = 400
        /\ last.res.attempts = last.res.sent
        /\ users = last.accounts
        /\ last.ops = <<>>

\* C13 witness: only the password is missing, the e-mail is unused and the
\* collection already holds an account.
C13_Witness ==
    /\ RegisterWithMissingField
    /\ ~Missing(last.req.body.name)
    /\ ~Missing(last.req.body.email)
    /\ last.accounts # <<>>
    /\ \A u \in AccountIds :
           last.accounts[u].email # ToLowerCase(last.req.body.email[1])
    /\ Statuses(last.res.sent) = {400}

\* The run recorded in `last` is registerUser on a body with all three
\* fields and an e-mail no stored account has.
RegisterFresh ==
    /\ last.op = "registerUser"
    /\ ~Missing(last.req.body.name)
    /\ ~Missing(last.req.body.email)
    /\ ~Missing(last.req.body.password)
    /\ \A u \in AccountIds :
           last.accounts[u].email # ToLowerCase(last.req.body.email[1])

\* The body passes the validators of userSchema: name of 3 to 20
\* characters, e-mail of the form x@y.z.
RegisterBodyValid ==
    /\ Len(last.req.body.name[1]) \in NameMinLength .. NameMaxLength
    /\ EmailPattern(last.req.body.email[1])

\* The run recorded in `last` added exactly one account, holding the hash
\* of the plaintext, and answered 201 with its _id, name, e-mail and a
\* token that verifies to its _id.
RegisterCreated ==
    /\ Len(users) = Len(last.accounts) + 1
    /\ SubSeq(users, 1, Len(last.accounts)) = last.accounts
    /\ LET new  == users[Len(users)]
           sent == last.res.sent
       IN  /\ new._id = Len(users)
           /\ new.name = last.req.body.name[1]
           /\ new.email = ToLowerCase(last.req.body.email[1])
           /\ DOMAIN new.password = {"rounds", "digest"}
           /\ BcryptCompare(last.req.body.password[1], new.password)
           /\ Len(sent) = 1
           /\ last.res.attempts = sent
           /\ sent[1].status = 201
           /\ DOMAIN sent[1].body = {"_id", "name", "email", "token"}
           /\ sent[1].body._id = new._id
           /\ sent[1].body.name = new.name
           /\ sent[1].body.email = new.email
           /\ JwtVerify(sent[1].body.token, EnvGet("JWT_SECRET"), last.at)
                  = [error |-> Undefined, decoded |-> [userId |-> new._id]]

-----------------------------------------------------------------------------
(* Properties of all handlers together (SpecAll)                           *)

\* A response body that carries a password field: its own, that of a task
\* it holds, or that of the populated owner of a task of its list.
CarriesPassword(body) ==
    \/ "password" \in DOMAIN body
    \/ /\ "task" \in DOMAIN body
       /\ "password" \in DOMAIN body.task
    \/ /\ "tasks" \in DOMAIN body
       /\ \E k \in 1 .. Len(body.tasks) :
              \/ "password" \in DOMAIN body.tasks[k]
              \/ "password" \in DOMAIN body.tasks[k].user
    \/ /\ "token" \in DOMAIN body
       /\ "password" \in DOMAIN body.token.payload

\* C15: whatever handler ran (register, login, any task operation, the
\* list with its owners populated), no response body it wrote carries an
\* account's stored password hash.
C15_NoPasswordInResponses ==
    "res" \in DOMAIN last =>
        \A i \in 1 .. Len(last.res.attempts) :
            ~CarriesPassword(last.res.attempts[i].body)

\* C15 witness: a list answered with a task whose owner was populated from
\* a users collection that a registration has extended.
C15_Witness ==
    /\ last.op = "getTasks"
    /\ Len(users) > 1
    /\ last.res.sent[1].body.tasks # <<>>
    /\ last.res.sent[1].body.tasks[1].user # Null

-----------------------------------------------------------------------------
(* app.js and the routers: an HTTP request on its way through the          *)
(* middleware stack.  A request is [method, url, headers, body].           *)

\* A path as written: whether it starts with "/", and its segments.
Path(rooted, segments) == [rooted |-> rooted, segments |-> segments]

\* app.use("/api/users", userRoutes), line 54
UsersMount == Path(TRUE, <<"api", "users">>)

\* app.use("api/tasks", taskRoutes), line 55: no leading slash
TasksMount == Path(FALSE, <<"api", "tasks">>)

\* Express matches a mount path against the start of the request path,
\* which always starts with "/".
MountMatches(mount, url) ==
    /\ mount.rooted = url.rooted
    /\ Len(mount.segments) <= Len(url.segments)
    /\ SubSeq(url.segments, 1, Len(mount.segments)) = mount.segments

\* The request path as the mounted router sees it
Rest(mount, url) ==
    SubSeq(url.segments, Len(mount.segments) + 1, Len(url.segments))

\* What the application made of a request: the response object, the two
\* collections, the middleware and handlers that ran, and whether a
\* handler's promise rejected with nobody to catch it.
AppOutcome(res, userStore, taskStore, ran, unhandled) ==
    [res |-> res, users |-> userStore, tasks |-> taskStore, ran |-> ran,
     unhandled |-> unhandled]

\* No route took the request: the router calls next()
PassedOn == [passedOn |-> TRUE]

\* routes/userRoutes.js (part_008): POST /register is routed to
\* registerUser (line 23); line 30 divides the string '/login' by the
\* handler, so no route for /login exists.
userRoutes(req, rest, t) ==
    IF req.method = "POST" /\ rest = <<"register">>
    THEN LET out == registerUser([body |-> req.body], NewRes, t)
         IN  AppOutcome(out.second, out.users, tasks, <<"registerUser">>,
                        out.unhandled)
    ELSE PassedOn

\* router.<method>(path, protect, handler): the handler runs when the gate
\* calls next(), on the request the gate left, req.user attached; params
\* are what the route's path pattern captured.
Guarded(req, handler, params) ==
    LET gate  == protect([headers |-> req.headers])
        inner == [user |-> gate.user[1], body |-> req.body, params |-> params]
        out   == CASE handler = "getTasks"    -> getTasks(inner)
                   [] handler = "createTask"  -> createTask(inner)
                   [] handler = "getTaskById" -> getTaskById(inner)
                   [] handler = "updateTask"  -> updateTask(inner)
                   [] handler = "deleteTask"  -> deleteTask(inner)
    IN  IF gate.next = 0
        THEN AppOutcome(gate.res, users, tasks, <<"protect">>, FALSE)
        ELSE AppOutcome(out.res, users, out.tasks, <<"protect", handler>>,
                        out.unhandled)

\* routes/taskRoutes.js (part_009): GET / and POST / (lines 25, 32), and
\* GET, PUT and DELETE /:id (lines 39, 47, 54)
taskRoutes(req, rest) ==
    LET handler == IF Len(rest) = 0
                   THEN IF req.method = "GET" THEN "getTasks"
                        ELSE IF req.method = "POST" THEN "createTask"
                        ELSE "none"
                   ELSE IF Len(rest) = 1
                   THEN IF req.method = "GET" THEN "getTaskById"
                        ELSE IF req.method = "PUT" THEN "updateTask"
                        ELSE IF req.method = "DELETE" THEN "deleteTask"
                        ELSE "none"
                   ELSE "none"
        params  == IF Len(rest) = 1 THEN [id |-> rest[1]] ELSE [id |-> 0]
    IN  IF handler = "none" THEN PassedOn
        ELSE Guarded(req, handler, params)

\* The 404 handler of app.js, lines 60-62
RouteNotFound ==
    AppOutcome(Json(NewRes, 404, [message |-> "Route not found"]),
               users, tasks, <<>>, FALSE)

\* app.js, lines 37-62, on a request at time t: cors, the body parsers and
\* the logger pass every request on; then the two mounts in order; then
\* the 404 handler.
App(req, t) ==
    LET fromUsers == IF MountMatches(UsersMount, req.url)
                     THEN userRoutes(req, Rest(UsersMount, req.url), t)
                     ELSE PassedOn
        fromTasks == IF MountMatches(TasksMount, req.url)
                     THEN taskRoutes(req, Rest(TasksMount, req.url))
                     ELSE PassedOn
    IN  IF fromUsers # PassedOn THEN fromUsers
        ELSE IF fromTasks # PassedOn THEN fromTasks
        ELSE RouteNotFound

\* A request the clients of the guide send
Request(method, segments, headers, body) ==
    [method |-> method, url |-> Path(TRUE, segments), headers |-> headers,
     body |-> body]

NoHeaders == [authorization |-> Undefined, autorization |-> Undefined]

\* One request served by the application.
Serve(req, out) ==
    /\ Len(out.users) <= MaxUsers
    /\ users' = out.users
    /\ tasks' = out.tasks
    /\ last' = [op |-> "http", req |-> req, res |-> out.res,
                ran |-> out.ran, unhandled |-> out.unhandled, at |-> now,
                accounts |-> users, before |-> tasks]
    /\ UNCHANGED <<now, inflight>>

PostRegister ==
    \E b \in RegisterBodies :
        LET req == Request("POST", <<"api", "users", "register">>, NoHeaders, b)
        IN  Serve(req, App(req, now))

PostLogin ==
    \E b \in LoginBodies :
        LET req == Request("POST", <<"api", "users", "login">>, NoHeaders, b)
        IN  Serve(req, App(req, now))

PostTasks ==
    \E h \in Headers(now), b \in {c \in CreateBodies : c.user = Undefined} :
        LET req == Request("POST", <<"api", "tasks">>, h, b)
        IN  Serve(req, App(req, now))

GetTasksList ==
    \E h \in Headers(now) :
        LET req == Request("GET", <<"api", "tasks">>, h, Undefined)
        IN  Serve(req, App(req, now))

InitApp == InitAuth

NextApp == PostRegister \/ PostLogin \/ PostTasks \/ GetTasksList

SpecApp == InitApp /\ [][NextApp]_vars

-----------------------------------------------------------------------------
(* Properties of the application end to end (SpecApp)                      *)

\* The run recorded in `r` is the application serving `method` on the path
\* of `segments`.
Served(r, method, segments) ==
    /\ r.op = "http"
    /\ r.req.method = method
    /\ r.req.url = Path(TRUE, segments)

\* "Authorization: Bearer <token>" and no other credentials
BearerOnly(token) ==
    [authorization |-> Some(HeaderValue("Bearer", token)),
     autorization |-> Undefined]

\* The run recorded in `r` answered 200 with exactly the tasks of `store`
\* that account u owns.
ListsTasksOf(r, store, u) ==
    /\ Statuses(r.res.sent) = {200}
    /\ "tasks" \in DOMAIN r.res.sent[1].body
    /\ LET listed == r.res.sent[1].body.tasks
       IN  {listed[i]._id : i \in 1 .. Len(listed)} = OwnedIds(store, u)

\* C20: after a register answered 201 with token T1, POST /api/tasks with
\* T1 and a title reaches createTask and is answered 201 with a task stored
\* under the registered account's id; GET /api/tasks with an account's
\* token is answered with the list of exactly that account's tasks (the
\* new task for its owner, nothing for a second account).
C20_EndToEnd ==
    [][/\ (/\ Served(last, "POST", <<"api", "users", "register">>)
           /\ Statuses(last.res.sent) = {201}
           /\ Served(last', "POST", <<"api", "tasks">>)
           /\ last'.req.headers = BearerOnly(last.res.sent[1].body.token)
           /\ ~Falsy(last'.req.body.title))
          => /\ Statuses(last'.res.sent) = {201}
             /\ last'.ran = <<"protect", "createTask">>
             /\ \E i \in TaskIds :
                    /\ tasks[i] = Null
                    /\ tasks'[i] # Null
                    /\ tasks'[i].user = last.res.sent[1].body._id
       /\ \A u \in 1 .. Len(users') :
              (/\ Served(last', "GET", <<"api", "tasks">>)
               /\ last'.req.headers = BearerOnly(generateToken(u, now')))
              => ListsTasksOf(last', tasks', u)]_vars

-----------------------------------------------------------------------------
(* The task router on its own: requests as they would reach taskRoutes.js  *)
(* under the mount the guide intends ('/api/tasks').                       *)

\* One request handed to the task router; a route always matches.
Routed(req, out) ==
    /\ out # PassedOn
    /\ tasks' = out.tasks
    /\ last' = [op |-> "route", req |-> req, res |-> out.res, ran |-> out.ran,
                unhandled |-> out.unhandled, at |-> now, accounts |-> users,
                before |-> tasks]
    /\ UNCHANGED <<users, now, inflight>>

RouteGetTasks ==
    \E h \in Headers(now) :
        LET req == Request("GET", <<"api", "tasks">>, h, Undefined)
        IN  Routed(req, taskRoutes(req, <<>>))

RoutePostTasks ==
    \E h \in Headers(now), b \in {c \in CreateBodies : c.user = Undefined} :
        LET req == Request("POST", <<"api", "tasks">>, h, b)
        IN  Routed(req, taskRoutes(req, <<>>))

RouteGetTaskById ==
    \E h \in Headers(now), id \in ParamIds :
        LET req == Request("GET", <<"api", "tasks", id>>, h, Undefined)
        IN  Routed(req, taskRoutes(req, <<id>>))

RoutePutTask ==
    \E h \in Headers(now), id \in ParamIds,
       b \in {c \in UpdateBodies : c.user = Undefined /\ c.priority = Undefined} :
        LET req == Request("PUT", <<"api", "tasks", id>>, h, b)
        IN  Routed(req, taskRoutes(req, <<id>>))

RouteDeleteTask ==
    \E h \in Headers(now), id \in ParamIds :
        LET req == Request("DELETE", <<"api", "tasks", id>>, h, Undefined)
        IN  Routed(req, taskRoutes(req, <<id>>))

InitRoutes ==
    /\ users = SeedUsers
    /\ tasks = [i \in TaskIds |->
                   TaskDoc(i, "buy milk", "one litre", PriorityDefault,
                           StatusDefault, 1)]
    /\ now = 0
    /\ last = NoRequest
    /\ inflight = NoneInFlight

NextRoutes ==
    \/ RouteGetTasks
    \/ RoutePostTasks
    \/ RouteGetTaskById
    \/ RoutePutTask
    \/ RouteDeleteTask

SpecRoutes == InitRoutes /\ [][NextRoutes]_vars

-----------------------------------------------------------------------------
(* Properties of the task router (SpecRoutes)                              *)

HandlerNames ==
    {"getTasks", "createTask", "getTaskById", "updateTask", "deleteTask"}

\* The task handlers that ran on the request recorded in `r`.
HandlersRun(r) == {r.ran[i] : i \in 1 .. Len(r.ran)} \cap HandlerNames

\* The request recorded in `r` carries "Authorization: Bearer <token>" with
\* a token that verifies, at the time of the request, to a stored account.
Authenticated(r) ==
    LET header   == r.req.headers.authorization
        verified == JwtVerify(header[1].token, EnvGet("JWT_SECRET"), r.at)
    IN  /\ header # Undefined
        /\ header[1].scheme = "Bearer"
        /\ verified.error = Undefined
        /\ verified.decoded.userId \in 1 .. Len(r.accounts)

\* C21: on every task route, no task handler runs unless the gate ran first
\* and the request is authenticated: a request without a verifying token
\* of a stored account never reaches getTasks, createTask, getTaskById,
\* updateTask or deleteTask.
C21_TaskRoutesNeedGate ==
    last.op = "route" =>
        /\ HandlersRun(last) # {} => last.ran[1] = "protect"
        /\ ~Authenticated(last) => HandlersRun(last) = {}

\* C21 witness: a request without a verifying token, on a route with an
\* :id, stopped by the gate with its 401.
C21_Witness ==
    /\ last.op = "route"
    /\ ~Authenticated(last)
    /\ last.req.method = "DELETE"
    /\ last.ran = <<"protect">>
    /\ Statuses(last.res.sent) = {401}
    /\ tasks = last.before

-----------------------------------------------------------------------------
(* Further properties of the account handlers (SpecAuth)                   *)

\* The run recorded in `last` is loginUser on a body that lacks the e-mail
\* or the password.
LoginWithMissingField ==
    /\ last.op = "loginUser"
    /\ Falsy(last.req.body.email) \/ Falsy(last.req.body.password)

\* C23: loginUser on a body without e-mail or without password answers 400
\* and does nothing else: one response, no second attempt to answer, no
\* account lookup, and the handler ends normally.
C23_LoginMissingFieldIs400Only ==
    LoginWithMissingField =>
        /\ Statuses(last.res.sent) = {400}
        /\ last.res.attempts = last.res.sent
        /\ last.ops = <<>>
        /\ ~last.unhandled

-----------------------------------------------------------------------------
(* updateTask and deleteTask, split at their awaits (SpecTaskRace).  A run  *)
(* first awaits Task.findById (line 111, 147); when that has resolved with *)
(* a document, the run awaits the mutation (line 120, 155) and the event   *)
(* loop serves other requests in between.                                  *)

\* A run that holds the result of its findById and has its mutation ahead.
Fetched(op, req, task) ==
    [pc |-> "fetched", op |-> op, req |-> req, task |-> task]

\* PUT bodies of the interleaved runs: a status, or nothing
RaceBodies ==
    {b \in UpdateBodies :
        b.user = Undefined /\ b.priority = Undefined /\ b.title = Undefined}

\* The handler ends on its findById: the id is no ObjectId (catch), or no
\* document was found (the returned 400).
EndsOnFetch(req) ==
    \/ ~ValidObjectId(req.params.id)
    \/ FindById(tasks, req.params.id) = Null

\* The record of a finished run of an interleaved handler.
RaceRun(op, req, out, task) ==
    [op |-> op, req |-> req, res |-> out.res, ops |-> out.ops,
     unhandled |-> out.unhandled, before |-> tasks, task |-> task]

\* Lines 109-118 / 145-154: up to the await of the mutation
Fetch(c, op, req, out) ==
    /\ inflight[c] = Idle
    /\ IF EndsOnFetch(req)
       THEN /\ last' = RaceRun(op, req, out, FindById(tasks, req.params.id))
            /\ UNCHANGED inflight
       ELSE /\ inflight' = [inflight EXCEPT ![c] =
                               Fetched(op, req, FindById(tasks, req.params.id))]
            /\ UNCHANGED last
    /\ UNCHANGED <<users, tasks, now>>

\* Lines 120-122 / 155-156, and the catch: the mutation and the answer
Mutate(c, op, out) ==
    /\ inflight[c].pc = "fetched"
    /\ inflight[c].op = op
    /\ tasks' = out.tasks
    /\ last' = RaceRun(op, inflight[c].req, out, inflight[c].task)
    /\ inflight' = [inflight EXCEPT ![c] = Idle]
    /\ UNCHANGED <<users, now>>

UpdateFetch ==
    \E c \in Clients, u \in UserIds, id \in ParamIds, b \in RaceBodies :
        LET req == [user |-> SelectNoPassword(users[u]),
                    params |-> [id |-> id], body |-> b]
        IN  Fetch(c, "updateTask", req, updateTask(req))

UpdateMutate ==
    \E c \in Clients :
        /\ inflight[c] # Idle
        /\ Mutate(c, "updateTask",
                  updateTaskAt(inflight[c].req, inflight[c].task, tasks))

DeleteFetch ==
    \E c \in Clients, u \in UserIds, id \in ParamIds :
        LET req == [user |-> SelectNoPassword(users[u]),
                    params |-> [id |-> id]]
        IN  Fetch(c, "deleteTask", req, deleteTask(req))

DeleteMutate ==
    \E c \in Clients :
        /\ inflight[c] # Idle
        /\ Mutate(c, "deleteTask",
                  deleteTaskAt(inflight[c].req, inflight[c].task, tasks))

InitTaskRace ==
    /\ users = SeedUsers
    /\ tasks = [i \in TaskIds |->
                   TaskDoc(i, "buy milk", "one litre", PriorityDefault,
                           StatusDefault, 1)]
    /\ now = 0
    /\ last = NoRequest
    /\ inflight = NoneInFlight

NextTaskRace == UpdateFetch \/ UpdateMutate \/ DeleteFetch \/ DeleteMutate

SpecTaskRace == InitTaskRace /\ [][NextTaskRace]_vars

-----------------------------------------------------------------------------
(* Properties of the interleaved task handlers (SpecTaskRace)              *)

\* The run recorded in `last` is updateTask or deleteTask by the owner of a
\* task that its findById found and that another request deleted before
\* its mutation ran.
DeletedInBetween ==
    /\ last.op \in {"updateTask", "deleteTask"}
    /\ last.req.params.id \in TaskIds
    /\ last.task # Null
    /\ last.task.user = last.req.user._id
    /\ last.before[last.req.params.id] = Null

\* C26: when a concurrent request deletes the task between the fetch and
\* the mutation of updateTask or deleteTask, the run answers 404: it does
\* not answer 200 and its promise does not reject unhandled.
C26_DeletedInBetweenIs404 ==
    DeletedInBetween =>
        /\ Statuses(last.res.sent) = {404}
        /\ ~last.unhandled

-----------------------------------------------------------------------------
(* registerUser, split at its awaits (SpecRegisterRace).  A run first      *)
(* awaits User.findOne (line 37); when that has found nobody, the run      *)
(* awaits bcrypt.hash and User.create (lines 43-50) and the event loop     *)
(* serves other requests in between.                                       *)

\* A run that holds the result of its findOne and has its create ahead.
Found(req, exists) == [pc |-> "found", req |-> req, exists |-> exists]

\* Bodies of the interleaved registrations: every field present, e-mail
\* addresses that differ in case only, and another one.
RaceRegisterBodies ==
    [name     : {Some("Ann"), Some("Bob")},
     email    : {Some("ann@x.com"), Some("Ann@X.com"), Some("bob@x.com")},
     password : {Some("longpass1")}]

\* The handler ends on its findOne: the returned 400 of line 33 or of
\* line 39.
EndsOnFindOne(body) ==
    \/ Falsy(body.name) \/ Falsy(body.email) \/ Falsy(body.password)
    \/ UserExists(body) # Null

\* The record of a finished run of the interleaved registerUser.
RegisterRun(req, out) ==
    [op |-> "registerUser", req |-> req, res |-> out.second, ops |-> out.ops,
     unhandled |-> out.unhandled, at |-> now, accounts |-> users]

\* Lines 29-40: up to the await of bcrypt.hash
RegisterFind ==
    \E c \in Clients, b \in RaceRegisterBodies :
        LET req == [body |-> b]
        IN  /\ inflight[c] = Idle
            /\ IF EndsOnFindOne(b)
               THEN /\ last' = RegisterRun(req, registerUser(req, NewRes, now))
                    /\ UNCHANGED inflight
               ELSE /\ inflight' = [inflight EXCEPT ![c] =
                                       Found(req, UserExists(b))]
                    /\ UNCHANGED last
            /\ UNCHANGED <<users, tasks, now>>

\* Lines 43-61, and the catch: the create and the answer
RegisterCreate ==
    \E c \in Clients :
        /\ inflight[c] # Idle
        /\ inflight[c].pc = "found"
        /\ LET run == inflight[c]
               out == registerUserFound(run.req, NewRes, now, run.exists)
           IN  /\ Len(out.users) <= MaxUsers
               /\ users' = out.users
               /\ last' = RegisterRun(run.req, out)
        /\ inflight' = [inflight EXCEPT ![c] = Idle]
        /\ UNCHANGED <<tasks, now>>

InitRegisterRace ==
    /\ users = <<>>
    /\ tasks = [i \in TaskIds |-> Null]
    /\ now = 0
    /\ last = NoRequest
    /\ inflight = NoneInFlight

NextRegisterRace == RegisterFind \/ RegisterCreate

SpecRegisterRace == InitRegisterRace /\ [][NextRegisterRace]_vars

-----------------------------------------------------------------------------
(* Properties of the interleaved registrations (SpecRegisterRace)          *)

\* C27: no two stored accounts have the same e-mail address up to case,
\* however the runs of registerUser interleave between their findOne and
\* their create.
C27_EmailsUnique ==
    \A i, j \in UserIds :
        ToLowerCase(users[i].email) = ToLowerCase(users[j].email) => i = j

\* C27 witness: a run of registerUser whose findOne found nobody, and whose
\* create came after another run had stored the same address: it stored
\* nothing and answered 500.
C27_Witness ==
    /\ last.op = "registerUser"
    /\ last.ops = <<"findOne", "create">>
    /\ \E u \in 1 .. Len(last.accounts) :
           last.accounts[u].email = ToLowerCase(last.req.body.email[1])
    /\ users = last.accounts
    /\ Statuses(last.res.sent) = {500}

-----------------------------------------------------------------------------
(* The lifetime of a token at the gate (SpecAuth)                          *)

\* C29: a token issued at time iat for an account carries the expiry
\* iat + 30 days, and the gate lets a request that presents it through
\* exactly while the time of the request is before that expiry.
C29_GateAcceptsUntilExpiry ==
    last.op = "protect" =>
        \A u \in AccountIds, iat \in {c \in ClockValues : c <= last.at} :
            last.req.headers.authorization
                = Some(HeaderValue("Bearer", generateToken(u, iat)))
            => /\ generateToken(u, iat).exp = iat + TokenTTL
               /\ last.next = 1 <=> last.at < iat + TokenTTL

-----------------------------------------------------------------------------
(* Further properties of all handlers over one database (SpecAll)          *)

\* C28: a run of loginUser, createTask, getTaskById, updateTask or
\* deleteTask sends at most one response, and once it has sent an error
\* response (400, 401, 403) it makes no further res.status(..).json(..)
\* call: the response it sent is the only one it tried to send.
C28_NoSecondResponse ==
    last.op \in {"loginUser", "createTask", "getTaskById", "updateTask",
                 "deleteTask"} =>
        /\ Len(last.res.sent) <= 1
        /\ Statuses(last.res.sent) \cap {400, 401, 403} # {}
               => last.res.attempts = last.res.sent

\* The step stores one more account and leaves the others as they were,
\* and it is a run of registerUser that answered 201.
GrowsByRegistration ==
    /\ Len(users') = Len(users) + 1
    /\ SubSeq(users', 1, Len(users)) = users
    /\ Registered(last')

\* C30: the users collection changes only by a successful registration
\* adding one account: loginUser, the gate and the task handlers leave
\* every account as it was, and no step removes an account.
C30_AccountsOnlyGrowByRegistration ==
    [][users' = users \/ GrowsByRegistration]_vars

\* C30 witness: with an account registered since the start, a login, the
\* gate or a task handler has run and the accounts are what they were.
C30_Witness ==
    /\ last.op \in {"loginUser", "protect", "updateTask", "deleteTask"}
    /\ Len(users) > 1
    /\ last.op \in {"loginUser", "protect"} => users = last.accounts

====
